---- MODULE Spec2Model ----
(***************************************************************************)
(* A model of the file service of animeapi: validate_file, the R2 object   *)
(* store client (CloudflareR2Service), the soft-deletable ledger           *)
(* (UserFileRecord on SoftDeleteModel) and the four views of oss_views.py  *)
(* (upload, batch upload, delete, list).                                   *)
(*                                                                         *)
(* Strings that the code takes apart or glues together (file names, object *)
(* keys) are sequences of tokens; a file name is a sequence of characters. *)
(* Requests are served one at a time in Spec: a batch upload is a loop     *)
(* whose iterations are steps, and no other request starts while the loop  *)
(* runs.                                                                   *)
(***************************************************************************)
EXTENDS Integers, Sequences, FiniteSets, TLC

VARIABLES
    ledger,   \* table user_file_record: a sequence of rows, row i has pk i
    store,    \* the R2 bucket: object key -> stored object
    now,      \* the wall clock, in seconds
    batch,    \* the batch upload being served (pc = "idle" when none)
    calls,    \* the store and ledger calls made by the request served last
    resp,     \* the answer of the request served last
    inflight  \* the delete requests that workers serve side by side

vars == <<ledger, store, now, batch, calls, resp, inflight>>

----------------------------------------------------------------------------
(* Bounds of the model *)

\* uploads whose store write succeeded that a run may hold (rows + orphans)
MaxUploads == 1
\* the clock stops advancing at MaxClock
MaxClock == 1
\* rows of a ledger that the listing starts from
MaxSeedRows == 3

\* the most rows, deleted ones included, a table used through the managers holds
MaxRows == 3
\* the workers of the server that serve delete requests at the same time
MaxWorkers == 2

----------------------------------------------------------------------------
(* settings.FILE_UPLOAD_CONFIG *)

MAX_FILE_SIZE == 2
MAX_BATCH_COUNT == 2
ALLOWED_TYPES ==
    [images |-> {"image/jpeg"}, documents |-> {"application/pdf"}]
ALLOWED_EXTENSIONS ==
    [images |-> {<<".", "j">>}, documents |-> {<<".", "p">>}]

----------------------------------------------------------------------------
(* Inputs *)

None == "None"
\* None in a DateTimeField
NoTime == 0 - 1
Users == {"alice", "bob"}
Workers == 1..MaxWorkers
Projects == {"p1"}
FileTypes == {"images"}
\* the values str(uuid.uuid4())[:8] may take
Uuids == {"0a", "0b"}

\* UploadedFile objects: name, size, content_type (data names the bytes)
Files ==
    { [name |-> <<"a", ".", "J">>, size |-> 1, content_type |-> "image/jpeg", data |-> "d1"],
      [name |-> <<"a", ".", "J">>, size |-> 3, content_type |-> "image/jpeg", data |-> "d3"],
      [name |-> <<"a", ".", "J">>, size |-> 1, content_type |-> "text/x-sh", data |-> "d4"],
      [name |-> <<"a", ".", "x">>, size |-> 1, content_type |-> "image/jpeg", data |-> "d5"] }

\* values of the custom_name field; <<>> is the absent or empty field, which
\* `request.data.get('custom_name') or None` turns into None
NoName == <<>>
CustomNames == {NoName, <<"c", ".", "x">>}

\* "" is an absent or empty form field
Missing == ""

----------------------------------------------------------------------------
(* str.lower and os.path.splitext *)

LowerChar(c) ==
    CASE c = "J" -> "j"
      [] c = "P" -> "p"
      [] c = "X" -> "x"
      [] OTHER -> c

Lower(s) == [i \in 1..Len(s) |-> LowerChar(s[i])]

\* the index of the last "." of name, 0 when there is none
LastDot(name) ==
    LET dots == {i \in 1..Len(name) : name[i] = "."}
    IN  IF dots = {} THEN 0 ELSE CHOOSE i \in dots : \A j \in dots : j <= i

\* os.path.splitext(name)[1]: the text from the last dot on, unless only dots
\* come before it
SplitExt(name) ==
    LET d == LastDot(name)
    IN  IF d > 0 /\ \E i \in 1..(d - 1) : name[i] # "."
        THEN SubSeq(name, d, Len(name))
        ELSE <<>>

----------------------------------------------------------------------------
(* validate_file *)

Flatten(config) == UNION {config[k] : k \in DOMAIN config}

\* validate_file with the extension checked before the type
validate_file_ext_first(file_obj) ==
    IF file_obj.size > MAX_FILE_SIZE
    THEN [is_valid |-> FALSE, error |-> "size"]
    ELSE LET file_ext == Lower(SplitExt(file_obj.name))
         IN  IF file_ext # <<>> /\ file_ext \notin Flatten(ALLOWED_EXTENSIONS)
             THEN [is_valid |-> FALSE, error |-> "extension"]
             ELSE IF file_obj.content_type \notin Flatten(ALLOWED_TYPES)
             THEN [is_valid |-> FALSE, error |-> "type"]
             ELSE [is_valid |-> TRUE, error |-> None]

validate_file(file_obj) ==
    IF file_obj.size > MAX_FILE_SIZE
    THEN [is_valid |-> FALSE, error |-> "size"]
    ELSE IF file_obj.content_type \notin Flatten(ALLOWED_TYPES)
    THEN [is_valid |-> FALSE, error |-> "type"]
    ELSE LET file_ext == Lower(SplitExt(file_obj.name))
         IN  IF file_ext # <<>> /\ file_ext \notin Flatten(ALLOWED_EXTENSIONS)
             THEN [is_valid |-> FALSE, error |-> "extension"]
             ELSE [is_valid |-> TRUE, error |-> None]

----------------------------------------------------------------------------
(* CloudflareR2Service *)

PUBLIC_URL == "https://r2.example"

\* datetime.now().strftime('%Y%m%d_%H%M%S'): one text per second
Strftime(t) == ToString(t)

\* f"{timestamp}_{short_uuid}_{original_name}"
StoredFileName(timestamp, short_uuid, original_name) ==
    <<timestamp, "_", short_uuid, "_">> \o original_name

\* f"{project_name}/{file_type}/{file_name}"
FilePath(project_name, file_type, file_name) ==
    <<project_name, "/", file_type, "/">> \o file_name

\* get_file_url: f"{self.public_url}/{file_path}"
get_file_url(file_path) == <<PUBLIC_URL, "/">> \o file_path

\* s3_client.upload_fileobj: writes the object under the key, replacing what
\* the key held
PutObject(st, file_path, file_obj) ==
    [k \in DOMAIN st \cup {file_path} |->
        IF k = file_path
        THEN [data |-> file_obj.data, size |-> file_obj.size,
              content_type |-> file_obj.content_type]
        ELSE st[k]]

\* s3_client.delete_object: removes the key; deleting an absent key succeeds
DeleteObject(st, file_path) == [k \in DOMAIN st \ {file_path} |-> st[k]]

\* upload_file with the ClientError logged and not re-raised
upload_file_swallow(st, file_obj, project_name, file_type, custom_name, timestamp, short_uuid, put_ok) ==
    LET original_name == IF custom_name # NoName THEN custom_name ELSE file_obj.name
        file_name == StoredFileName(Strftime(timestamp), short_uuid, original_name)
        file_path == FilePath(project_name, file_type, file_name)
    IN  [ok |-> TRUE,
         store |-> IF put_ok THEN PutObject(st, file_path, file_obj) ELSE st,
         file_path |-> file_path,
         result |-> [url |-> get_file_url(file_path),
                     file_path |-> file_path,
                     file_name |-> file_name,
                     original_name |-> original_name,
                     file_size |-> file_obj.size,
                     content_type |-> file_obj.content_type]]

\* upload_file: put_ok = FALSE is a ClientError of the store, re-raised
upload_file(st, file_obj, project_name, file_type, custom_name, timestamp, short_uuid, put_ok) ==
    LET original_name == IF custom_name # NoName THEN custom_name ELSE file_obj.name
        file_name == StoredFileName(Strftime(timestamp), short_uuid, original_name)
        file_path == FilePath(project_name, file_type, file_name)
    IN  IF put_ok
        THEN [ok |-> TRUE, store |-> PutObject(st, file_path, file_obj),
              file_path |-> file_path,
              result |-> [url |-> get_file_url(file_path),
                          file_path |-> file_path,
                          file_name |-> file_name,
                          original_name |-> original_name,
                          file_size |-> file_obj.size,
                          content_type |-> file_obj.content_type]]
        ELSE [ok |-> FALSE, store |-> st, file_path |-> file_path]

\* delete_file with the ClientError logged and not re-raised
delete_file_swallow(st, file_path, del_ok) ==
    [ok |-> TRUE, store |-> IF del_ok THEN DeleteObject(st, file_path) ELSE st]

\* delete_file: del_ok = FALSE is a ClientError of the store, re-raised
delete_file(st, file_path, del_ok) ==
    IF del_ok
    THEN [ok |-> TRUE, store |-> DeleteObject(st, file_path)]
    ELSE [ok |-> FALSE, store |-> st]

----------------------------------------------------------------------------
(* The ledger: UserFileRecord, SoftDeleteModel, SoftDeleteManager *)

\* The table is a sequence of rows, the pk of a row being its position. A row
\* deleted from the table leaves Gone at its position: its pk is not given to
\* another row.
Gone == [gone |-> TRUE]

\* models.Manager.get_queryset: the pks of the rows in the table
Table(rows) == {i \in 1..Len(rows) : rows[i] # Gone}

\* a uniqueness that covers only the rows that are not soft-deleted
UniqueAmongLive(rows, file_path) ==
    \A i \in Table(rows) : rows[i].is_deleted \/ rows[i].file_path # file_path

\* file_path = CharField(unique=True): the constraint covers every row of the
\* table, soft-deleted or not
UniqueFilePath(rows, file_path) ==
    \A i \in Table(rows) : rows[i].file_path # file_path

\* UserFileRecord.objects.create(...): db_ok = FALSE is a database error;
\* a duplicate file_path is an IntegrityError
Create(rows, user, upload_result, project_name, file_type, at, db_ok) ==
    IF db_ok /\ UniqueFilePath(rows, upload_result.file_path)
    THEN [ok |-> TRUE, pk |-> Len(rows) + 1,
          ledger |-> Append(rows,
              [user |-> user,
               file_name |-> upload_result.original_name,
               file_path |-> upload_result.file_path,
               file_url |-> upload_result.url,
               file_size |-> upload_result.file_size,
               content_type |-> upload_result.content_type,
               project_name |-> project_name,
               file_type |-> file_type,
               is_deleted |-> FALSE,
               deleted_at |-> NoTime,
               uploaded_at |-> at])]
    ELSE [ok |-> FALSE, pk |-> 0, ledger |-> rows]

\* a default manager that does not filter
ObjectsWithDeleted(rows) == Table(rows)

\* SoftDeleteManager.get_queryset: the pks of the rows with is_deleted = False
Objects(rows) == {i \in Table(rows) : ~rows[i].is_deleted}

\* SoftDeleteManager.all_with_deleted / all_objects
AllWithDeleted(rows) == Table(rows)

\* SoftDeleteManager.deleted_only
DeletedOnly(rows) == {i \in Table(rows) : rows[i].is_deleted}

\* a delete that removes the row from the table
SoftDeleteRemoving(rows, pk, at) ==
    SubSeq(rows, 1, pk - 1) \o SubSeq(rows, pk + 1, Len(rows))

\* SoftDeleteModel.delete: marks the row and saves it
SoftDelete(rows, pk, at) ==
    [rows EXCEPT ![pk].is_deleted = TRUE, ![pk].deleted_at = at]

\* SoftDeleteModel.hard_delete: models.Model.delete, the row leaves the table
HardDelete(rows, pk) == [rows EXCEPT ![pk] = Gone]

\* a restore that clears the flag and keeps the time of the deletion
RestoreFlagOnly(rows, pk) == [rows EXCEPT ![pk].is_deleted = FALSE]

\* SoftDeleteModel.restore
Restore(rows, pk) ==
    [rows EXCEPT ![pk].is_deleted = FALSE, ![pk].deleted_at = NoTime]


----------------------------------------------------------------------------
(* Requests and answers *)

\* one call of a collaborator made while serving a request: fn is "put",
\* "insert", "delete_object" or "save"; idx is the position of the file in a
\* batch (1 otherwise)
Call(fn, key, ok, idx) == [fn |-> fn, key |-> key, ok |-> ok, idx |-> idx]

\* an error answer built without its code, which then is the default 400
ErrorDefaultCode(op, rq, code, message) ==
    [op |-> op, request |-> <<rq>>, code |-> 400, message |-> message, data |-> <<>>]

\* An answer is kept with the request it answers (rq, in a sequence of one).
\* APIResponse.error: code and message, data = None (the empty sequence)
Error(op, rq, code, message) ==
    [op |-> op, request |-> <<rq>>, code |-> code, message |-> message, data |-> <<>>]

\* APIResponse.success: code 200; data is a sequence holding the payload
Success(op, rq, message, data) ==
    [op |-> op, request |-> <<rq>>, code |-> 200, message |-> message,
     data |-> <<data>>]

\* no answer is on its way to a client
NoResp == [op |-> "none", request |-> <<>>, code |-> 0, message |-> None, data |-> <<>>]

\* no batch upload is being served
NoBatch ==
    [pc |-> "idle", request |-> <<>>, files |-> <<>>, success_list |-> <<>>,
     failed_list |-> <<>>]

\* a worker of the server that is serving no delete request
Waiting == [pc |-> "idle", request |-> <<>>, record |-> 0, answer |-> NoResp]

\* no delete request is being served by a worker
NoInflight == [w \in Workers |-> Waiting]

\* the server is free to take a request
Idle == batch.pc = "idle" /\ resp = NoResp

\* the object keys the run holds: those of the rows and those of the store
Tracked == DOMAIN store \cup {ledger[i].file_path : i \in 1..Len(ledger)}

\* the model keeps at most MaxUploads keys: once it holds them, a store write
\* under a further key fails
Room(call) ==
    (call.fn = "put" /\ call.ok) =>
        (call.key \in Tracked \/ Cardinality(Tracked) < MaxUploads)

Init ==
    /\ ledger = <<>>
    /\ store = <<>>
    /\ now = 0
    /\ batch = NoBatch
    /\ calls = <<>>
    /\ resp = NoResp
    /\ inflight = NoInflight

\* a second passes (an answer on its way is delivered first)
Tick ==
    /\ resp = NoResp
    /\ now < MaxClock
    /\ now' = now + 1
    /\ UNCHANGED <<ledger, store, batch, calls, resp, inflight>>

\* the answer reaches the client; the server takes the next request
Deliver ==
    /\ resp # NoResp
    /\ resp' = NoResp
    /\ calls' = <<>>
    /\ UNCHANGED <<ledger, store, now, batch, inflight>>

\* what the environment decides for one upload: the uuid drawn, and whether the
\* store write and the ledger insert go through
Fates == [short_uuid : Uuids, put_ok : BOOLEAN, db_ok : BOOLEAN]

----------------------------------------------------------------------------
(* FileUploadView.post *)

\* the form fields of an upload request; nfiles is
\* len(request.FILES.getlist('file')), file_obj the file read when there is one
UploadRequests ==
    [user : Users, nfiles : {1}, file_obj : Files, project_name : Projects,
     file_type : FileTypes, custom_name : {NoName}]
    \cup [user : Users, nfiles : {0, 2}, file_obj : {CHOOSE f \in Files : TRUE},
          project_name : Projects, file_type : FileTypes, custom_name : {NoName}]
    \cup [user : Users, nfiles : {1}, file_obj : {CHOOSE f \in Files : TRUE},
          project_name : {Missing}, file_type : FileTypes, custom_name : {NoName}]
    \cup [user : Users, nfiles : {1}, file_obj : {CHOOSE f \in Files : TRUE},
          project_name : Projects, file_type : {Missing}, custom_name : {NoName}]

\* a validation result that is never a rejection
RejectedNever(v) == FALSE

\* `if not is_valid:` on the result of validate_file
Rejected(v) == ~v.is_valid

\* the whole handler
UploadOutcome(rq, fate) ==
    LET user == rq.user
        unchanged(r) == [ledger |-> ledger, store |-> store, calls |-> <<>>, resp |-> r]
        v == validate_file(rq.file_obj)
        up == upload_file(store, rq.file_obj, rq.project_name, rq.file_type,
                          rq.custom_name, now, fate.short_uuid, fate.put_ok)
        put == Call("put", up.file_path, up.ok, 1)
        cr == Create(ledger, user, up.result, rq.project_name, rq.file_type, now,
                     fate.db_ok)
        ins == Call("insert", up.file_path, cr.ok, 1)
    IN  IF rq.nfiles = 0 THEN unchanged(Error("upload", rq, 400, "missing file"))
        ELSE IF rq.nfiles > 1
        THEN unchanged(Error("upload", rq, 400, "several files"))
        ELSE IF rq.project_name = Missing
        THEN unchanged(Error("upload", rq, 400, "missing project_name"))
        ELSE IF rq.file_type = Missing
        THEN unchanged(Error("upload", rq, 400, "missing file_type"))
        ELSE IF Rejected(v) THEN unchanged(Error("upload", rq, 400, v.error))
        ELSE IF ~up.ok
        THEN [ledger |-> ledger, store |-> up.store, calls |-> <<put>>,
              resp |-> Error("upload", rq, 500, "store")]
        ELSE IF ~cr.ok
        THEN [ledger |-> ledger, store |-> up.store, calls |-> <<put, ins>>,
              resp |-> Error("upload", rq, 500, "ledger")]
        ELSE [ledger |-> cr.ledger, store |-> up.store, calls |-> <<put, ins>>,
              resp |-> Success("upload", rq, "uploaded",
                               [result |-> up.result, record_id |-> cr.pk])]

\* the endpoint, taking its requests from the set requests
FileUploadPostOf(requests) ==
    /\ Idle
    /\ \E rq \in requests, fate \in Fates :
          LET out == UploadOutcome(rq, fate)
          IN  /\ \A i \in 1..Len(out.calls) : Room(out.calls[i])
              /\ ledger' = out.ledger
              /\ store' = out.store
              /\ calls' = out.calls
              /\ resp' = out.resp
    /\ UNCHANGED <<now, batch, inflight>>

FileUploadPost == FileUploadPostOf(UploadRequests)

----------------------------------------------------------------------------
(* FileBatchUploadView.post *)

\* the form fields of a batch upload; nfiles is len(request.FILES.getlist('files'))
BatchRequests ==
    [user : Users, nfiles : 0..(MAX_BATCH_COUNT + 1), project_name : Projects,
     file_type : FileTypes]
    \cup [user : Users, nfiles : {1}, project_name : {Missing}, file_type : FileTypes]
    \cup [user : Users, nfiles : {1}, project_name : Projects, file_type : {Missing}]

\* the checks made before the loop, without the one on the number of files
BatchRejectionNoLimit(rq) ==
    IF rq.nfiles = 0 THEN "missing files"
    ELSE IF rq.project_name = Missing THEN "missing project_name"
    ELSE IF rq.file_type = Missing THEN "missing file_type"
    ELSE None

\* the checks made before the loop: the message of the 400 answer, or None
BatchRejection(rq) ==
    IF rq.nfiles = 0 THEN "missing files"
    ELSE IF rq.project_name = Missing THEN "missing project_name"
    ELSE IF rq.file_type = Missing THEN "missing file_type"
    ELSE IF rq.nfiles > MAX_BATCH_COUNT THEN "too many files"
    ELSE None

\* the request is read and checked; it is answered at once or the loop starts
BatchStart ==
    /\ Idle
    /\ \E rq \in BatchRequests :
          IF BatchRejection(rq) # None
          THEN /\ resp' = Error("batch", rq, 400, BatchRejection(rq))
               /\ batch' = batch
          ELSE /\ resp' = resp
               /\ batch' = [pc |-> "loop", request |-> <<rq>>, files |-> <<>>,
                            success_list |-> <<>>, failed_list |-> <<>>]
    /\ calls' = <<>>
    /\ UNCHANGED <<ledger, store, now, inflight>>

\* a failure that leaves no entry
FailedAppendDropped(failed_list, idx, file_obj, error) == failed_list

\* failed_list.append({'file_name': file_obj.name, 'error': ...})
FailedAppend(failed_list, idx, file_obj, error) ==
    Append(failed_list, [idx |-> idx, file_name |-> file_obj.name, error |-> error])

\* one iteration of `for file_obj in files`: file_obj is the file at position
\* idx of the request
BatchFileOutcome(b, idx, file_obj, fate) ==
    LET rq == b.request[1]
        v == validate_file(file_obj)
        up == upload_file(store, file_obj, rq.project_name, rq.file_type, NoName,
                          now, fate.short_uuid, fate.put_ok)
        put == Call("put", up.file_path, up.ok, idx)
        cr == Create(ledger, rq.user, up.result, rq.project_name, rq.file_type, now,
                     fate.db_ok)
        ins == Call("insert", up.file_path, cr.ok, idx)
        failed(error) == FailedAppend(b.failed_list, idx, file_obj, error)
    IN  IF Rejected(v)
        THEN [ledger |-> ledger, store |-> store, calls |-> <<>>,
              success_list |-> b.success_list, failed_list |-> failed(v.error)]
        ELSE IF ~up.ok
        THEN [ledger |-> ledger, store |-> up.store, calls |-> <<put>>,
              success_list |-> b.success_list, failed_list |-> failed("store")]
        ELSE IF ~cr.ok
        THEN [ledger |-> ledger, store |-> up.store, calls |-> <<put, ins>>,
              success_list |-> b.success_list, failed_list |-> failed("ledger")]
        ELSE [ledger |-> cr.ledger, store |-> up.store, calls |-> <<put, ins>>,
              success_list |-> Append(b.success_list,
                                      [idx |-> idx, result |-> up.result,
                                       record_id |-> cr.pk]),
              failed_list |-> b.failed_list]

\* the result returned after the loop (files: the files of the request)
BatchResult(b) ==
    [total |-> b.request[1].nfiles,
     success_count |-> Len(b.success_list),
     failed_count |-> Len(b.failed_list),
     success_files |-> b.success_list,
     failed_files |-> b.failed_list,
     files |-> b.files]

\* a loop that the first failure ends
MoreFilesUntilFailure(b) ==
    Len(b.files) < b.request[1].nfiles /\ b.failed_list = <<>>

\* `for file_obj in files`: files of the request are left to process
MoreFiles(b) == Len(b.files) < b.request[1].nfiles

\* one iteration of the loop, the file taken from the set files; after the
\* last file the result is returned
BatchFileOf(files) ==
    /\ batch.pc = "loop"
    /\ \E file_obj \in files, fate \in Fates :
          LET out == BatchFileOutcome(batch, Len(batch.files) + 1, file_obj, fate)
              b == [batch EXCEPT !.files = Append(@, file_obj),
                                 !.success_list = out.success_list,
                                 !.failed_list = out.failed_list]
          IN  /\ \A i \in 1..Len(out.calls) : Room(out.calls[i])
              /\ ledger' = out.ledger
              /\ store' = out.store
              /\ calls' = calls \o out.calls
              /\ IF MoreFiles(b)
                 THEN /\ batch' = b
                      /\ resp' = resp
                 ELSE /\ batch' = NoBatch
                      /\ resp' = Success("batch", b.request[1],
                                         IF b.failed_list # <<>> THEN "partly uploaded"
                                         ELSE "all uploaded",
                                         BatchResult(b))
    /\ UNCHANGED <<now, inflight>>

BatchFile == BatchFileOf(Files)

----------------------------------------------------------------------------
(* FileDeleteView.delete *)

\* the body of a delete request: id 0 stands for an absent or falsy id;
\* numeric = FALSE is an id that is text and no number
DeleteRequests ==
    [user : Users, id : 0..(Len(ledger) + 1), numeric : {TRUE}]
    \cup [user : Users, id : {1}, numeric : {FALSE}]

\* what the environment decides for one delete
DeleteFates == [del_ok : BOOLEAN, save_ok : BOOLEAN]

\* a lookup by id alone
LookupAnyOwner(rows, id, user) == IF id \in Objects(rows) THEN id ELSE 0

\* UserFileRecord.objects.filter(id=record_id, user=request.user).first():
\* the pk of the row found, 0 when there is none
Lookup(rows, id, user) ==
    IF id \in Objects(rows) /\ rows[id].user = user THEN id ELSE 0

\* the whole handler
DeleteOutcome(rq, fate) ==
    LET unchanged(r) == [ledger |-> ledger, store |-> store, calls |-> <<>>, resp |-> r]
        record == Lookup(ledger, rq.id, rq.user)
        file_path == ledger[record].file_path
        del == delete_file(store, file_path, fate.del_ok)
        rm == Call("delete_object", file_path, del.ok, 1)
        save == Call("save", file_path, fate.save_ok, 1)
    IN  IF rq.numeric /\ rq.id = 0
        THEN unchanged(Error("delete", rq, 400, "missing id"))
        ELSE IF ~rq.numeric
        THEN unchanged(Error("delete", rq, 500, "bad number"))
        ELSE IF record = 0 THEN unchanged(Error("delete", rq, 404, "not found"))
        ELSE IF ~del.ok
        THEN [ledger |-> ledger, store |-> del.store, calls |-> <<rm>>,
              resp |-> Error("delete", rq, 500, "store")]
        ELSE IF ~fate.save_ok
        THEN [ledger |-> ledger, store |-> del.store, calls |-> <<rm, save>>,
              resp |-> Error("delete", rq, 500, "ledger")]
        ELSE [ledger |-> SoftDelete(ledger, record, now), store |-> del.store,
              calls |-> <<rm, save>>,
              resp |-> Success("delete", rq, "deleted", None)]

FileDeleteDelete ==
    /\ Idle
    /\ \E rq \in DeleteRequests, fate \in DeleteFates :
          LET out == DeleteOutcome(rq, fate)
          IN  /\ ledger' = out.ledger
              /\ store' = out.store
              /\ calls' = out.calls
              /\ resp' = out.resp
    /\ UNCHANGED <<now, batch, inflight>>

----------------------------------------------------------------------------
(* UserFileListView.get *)

\* the query of a list request; Missing is an absent filter; numeric = FALSE
\* is a page or page_size that int() does not accept
ListRequests ==
    [user : Users, project_name : Projects \cup {Missing}, file_type : {Missing},
     page : 1..2, page_size : 1..2, numeric : {TRUE}]
    \cup [user : Users, project_name : {Missing}, file_type : {Missing},
          page : {1}, page_size : {1}, numeric : {FALSE}]

\* a queryset whose file_type filter is applied only when project_name is absent
QuerysetElif(rows, rq) ==
    {i \in Objects(rows) :
        /\ rows[i].user = rq.user
        /\ (rq.project_name # Missing => rows[i].project_name = rq.project_name)
        /\ ((rq.project_name = Missing /\ rq.file_type # Missing) =>
               rows[i].file_type = rq.file_type)}

\* UserFileRecord.objects.filter(user=user) and the filters that are present
Queryset(rows, rq) ==
    {i \in Objects(rows) :
        /\ rows[i].user = rq.user
        /\ (rq.project_name # Missing => rows[i].project_name = rq.project_name)
        /\ (rq.file_type # Missing => rows[i].file_type = rq.file_type)}

\* Meta.ordering = ["-uploaded_at"]: the orders the database may return the
\* rows in (rows uploaded in the same second come in any order)
Orderings(rows, ids) ==
    {o \in [1..Cardinality(ids) -> ids] :
        /\ \A i, j \in DOMAIN o : i # j => o[i] # o[j]
        /\ \A i, j \in DOMAIN o : i < j => rows[o[i]].uploaded_at >= rows[o[j]].uploaded_at}

\* Paginator.num_pages, for per_page >= 1
NumPages(count, per_page) ==
    LET hits == IF count < 1 THEN 1 ELSE count
    IN  (hits + per_page - 1) \div per_page

\* Paginator.get_page: a number outside 1..num_pages gives the last page
GetPageNumber(number, num_pages) ==
    IF number < 1 \/ number > num_pages THEN num_pages ELSE number

\* Paginator.page(number).object_list
PageItems(order, number, per_page) ==
    LET bottom == (number - 1) * per_page
        top == IF bottom + per_page >= Len(order) THEN Len(order)
               ELSE bottom + per_page
    IN  SubSeq(order, bottom + 1, top)

\* the whole handler, the database returning the rows in order `order`
ListOutcome(rq, order) ==
    LET count == Len(order)
        num_pages == NumPages(count, rq.page_size)
        number == GetPageNumber(rq.page, num_pages)
    IN  IF ~rq.numeric THEN Error("list", rq, 500, "bad number")
        ELSE Success("list", rq, "listed",
                [files |-> PageItems(order, number, rq.page_size),
                 pagination |-> [page |-> rq.page, page_size |-> rq.page_size,
                                 total |-> count, total_pages |-> num_pages]])

\* the endpoint, taking its requests from the set requests
UserFileListGetOf(requests) ==
    /\ Idle
    /\ \E rq \in requests :
          \E order \in Orderings(ledger, Queryset(ledger, rq)) :
              resp' = ListOutcome(rq, order)
    /\ calls' = <<>>
    /\ UNCHANGED <<ledger, store, now, batch, inflight>>

UserFileListGet == UserFileListGetOf(ListRequests)

----------------------------------------------------------------------------

\* every endpoint
Next ==
    \/ Tick
    \/ Deliver
    \/ FileUploadPost
    \/ BatchStart
    \/ BatchFile
    \/ FileDeleteDelete
    \/ UserFileListGet

Spec == Init /\ [][Next]_vars

\* the endpoints that serve a request in one step: upload, delete, list
NextSingle ==
    \/ Tick
    \/ Deliver
    \/ FileUploadPost
    \/ FileDeleteDelete
    \/ UserFileListGet

SpecSingle == Init /\ [][NextSingle]_vars

\* the two upload endpoints
NextUpload ==
    \/ Tick
    \/ Deliver
    \/ FileUploadPost
    \/ BatchStart
    \/ BatchFile

SpecUpload == Init /\ [][NextUpload]_vars

\* uploads of two users whose files bear the same name and differ in their
\* bytes
CollisionFiles ==
    { [name |-> <<"a", ".", "J">>, size |-> 1, content_type |-> "image/jpeg", data |-> "d1"],
      [name |-> <<"a", ".", "J">>, size |-> 2, content_type |-> "image/jpeg", data |-> "d2"] }

CollisionRequests ==
    [user : Users, nfiles : {1}, file_obj : CollisionFiles, project_name : Projects,
     file_type : FileTypes, custom_name : {NoName}]

\* the upload endpoint alone, on files of the same name
NextCollision ==
    \/ Tick
    \/ Deliver
    \/ FileUploadPostOf(CollisionRequests)

SpecCollision == Init /\ [][NextCollision]_vars

\* the four endpoints within one second and on fewer inputs: one file that is
\* accepted and one that is rejected by each check, one request for each
\* missing field, and the first page of each user's list
LedgerFiles ==
    { [name |-> <<"a", ".", "J">>, size |-> 1, content_type |-> "image/jpeg", data |-> "d1"],
      [name |-> <<"a", ".", "J">>, size |-> 1, content_type |-> "text/x-sh", data |-> "d4"] }

LedgerUploadRequests ==
    [user : Users, nfiles : {1}, file_obj : LedgerFiles, project_name : Projects,
     file_type : FileTypes, custom_name : {NoName}]
    \cup {rq \in UploadRequests :
             /\ rq.user = "alice"
             /\ \/ rq.nfiles # 1
                \/ rq.project_name = Missing
                \/ rq.file_type = Missing
                \/ rq.file_obj \notin LedgerFiles}

LedgerListRequests ==
    [user : Users, project_name : {Missing}, file_type : {Missing}, page : {1},
     page_size : {2}, numeric : BOOLEAN]

NextLedger ==
    \/ Deliver
    \/ FileUploadPostOf(LedgerUploadRequests)
    \/ BatchStart
    \/ BatchFileOf(LedgerFiles)
    \/ FileDeleteDelete
    \/ UserFileListGetOf(LedgerListRequests)

SpecLedger == Init /\ [][NextLedger]_vars

----------------------------------------------------------------------------
(* validate_file on its own *)

\* file names with and without extension, in both cases
ValidateNames ==
    { <<"a", ".", "J">>, <<"a", ".", "j">>, <<"a", ".", "P">>, <<"a", ".", "x">>,
      <<"a", ".", "X">>, <<"a">>, <<".", "j">>, <<"a", ".", "x", ".", "J">>,
      <<"a", ".">> }

\* files below, at and above the size limit, of allowed and other types
ValidateFiles ==
    [name : ValidateNames, size : (MAX_FILE_SIZE - 1)..(MAX_FILE_SIZE + 1),
     content_type : {"image/jpeg", "application/pdf", "text/x-sh", "image/x"},
     data : {"d"}]

\* is_valid, error_msg = validate_file(file_obj): the pair is kept as an answer
ValidateFile ==
    /\ Idle
    /\ \E file_obj \in ValidateFiles :
          LET v == validate_file(file_obj)
          IN  resp' = [op |-> "validate", request |-> <<file_obj>>,
                       code |-> IF v.is_valid THEN 200 ELSE 400,
                       message |-> v.error, data |-> <<>>]
    /\ UNCHANGED <<ledger, store, now, batch, calls, inflight>>

NextValidate ==
    \/ Deliver
    \/ ValidateFile

SpecValidate == Init /\ [][NextValidate]_vars

----------------------------------------------------------------------------
(* Listing and deleting on ledgers that earlier uploads have filled *)

\* StandardResultsSetPagination.max_page_size, 100 in the source: 2 here, where
\* a ledger has MaxSeedRows rows or a few more
max_page_size == 2

\* uploads served before the listing starts, in the order they were served:
\* two projects, two file types, two users, two seconds
SeedUploads ==
    << [user |-> "alice", project_name |-> "p1", file_type |-> "images", at |-> 0, short_uuid |-> "0a"],
       [user |-> "alice", project_name |-> "p1", file_type |-> "documents", at |-> 0, short_uuid |-> "0a"],
       [user |-> "bob", project_name |-> "p1", file_type |-> "images", at |-> 0, short_uuid |-> "0b"],
       [user |-> "alice", project_name |-> "p2", file_type |-> "images", at |-> 1, short_uuid |-> "0a"],
       [user |-> "alice", project_name |-> "p1", file_type |-> "images", at |-> 1, short_uuid |-> "0a"] >>

\* the file each of them carried
SeedFile ==
    [name |-> <<"a", ".", "J">>, size |-> 1, content_type |-> "image/jpeg", data |-> "d1"]

\* the uploads of SeedUploads whose positions are in S, in their order
RECURSIVE Chosen(_)
Chosen(S) ==
    IF S = {} THEN <<>>
    ELSE LET last == CHOOSE i \in S : \A j \in S : j <= i
         IN  Append(Chosen(S \ {last}), SeedUploads[last])

\* the ledger and the store after the uploads ds, each served by
\* FileUploadView.post without failure
RECURSIVE Seeded(_)
Seeded(ds) ==
    IF ds = <<>> THEN [ledger |-> <<>>, store |-> <<>>]
    ELSE LET before == Seeded(SubSeq(ds, 1, Len(ds) - 1))
             d == ds[Len(ds)]
             up == upload_file(before.store, SeedFile, d.project_name, d.file_type,
                               NoName, d.at, d.short_uuid, TRUE)
             cr == Create(before.ledger, d.user, up.result, d.project_name,
                          d.file_type, d.at, TRUE)
         IN  [ledger |-> cr.ledger, store |-> up.store]

InitListing ==
    /\ \E S \in SUBSET (1..Len(SeedUploads)) :
          /\ Cardinality(S) <= MaxSeedRows
          /\ ledger = Seeded(Chosen(S)).ledger
          /\ store = Seeded(Chosen(S)).store
    /\ now = 1
    /\ batch = NoBatch
    /\ calls = <<>>
    /\ resp = NoResp
    /\ inflight = NoInflight

\* list requests with every filter, pages from 0 to past the last one, and
\* page sizes up to past max_page_size
ListingRequests ==
    [user : Users, project_name : {Missing, "p1", "p2"},
     file_type : {Missing, "images", "documents"},
     page : 0..3, page_size : 1..(max_page_size + 1), numeric : {TRUE}]

NextListing ==
    \/ Deliver
    \/ FileDeleteDelete
    \/ UserFileListGetOf(ListingRequests)

SpecListing == InitListing /\ [][NextListing]_vars

----------------------------------------------------------------------------
(* The keys upload_file generates *)

\* uploads of one file with and without custom_name
NamingRequests ==
    [user : Users, nfiles : {1}, file_obj : {SeedFile}, project_name : Projects,
     file_type : FileTypes, custom_name : CustomNames]

NextNaming ==
    \/ Tick
    \/ Deliver
    \/ FileUploadPostOf(NamingRequests)

SpecNaming == Init /\ [][NextNaming]_vars


----------------------------------------------------------------------------
(* SoftDeleteModel and its managers, used directly *)

\* what a call on the table answers: the call, the pk it was made on and
\* whether the row was soft-deleted when the call was made
Done(op, pk, was_deleted) ==
    [op |-> op, request |-> <<[pk |-> pk, was_deleted |-> was_deleted]>>,
     code |-> 200, message |-> None, data |-> <<>>]

InitManagers ==
    /\ ledger = <<>>
    /\ store = <<>>
    /\ now \in 0..MaxClock
    /\ batch = NoBatch
    /\ calls = <<>>
    /\ resp = NoResp
    /\ inflight = NoInflight

\* objects.create(...) of a row for an object written by upload_file; a
\* file_path that a row of the table has is refused
ModelCreate ==
    /\ Idle
    /\ Len(ledger) < MaxRows
    /\ \E short_uuid \in Uuids :
          LET up == upload_file(store, SeedFile, "p1", "images", NoName, now,
                                short_uuid, TRUE)
              cr == Create(ledger, "alice", up.result, "p1", "images", now, TRUE)
          IN  /\ cr.ok
              /\ ledger' = cr.ledger
              /\ store' = up.store
              /\ resp' = Done("create", cr.pk, FALSE)
    /\ UNCHANGED <<now, batch, calls, inflight>>

\* record.delete() on a row fetched from all_objects
ModelDelete ==
    /\ Idle
    /\ \E pk \in AllWithDeleted(ledger) :
          /\ ledger' = SoftDelete(ledger, pk, now)
          /\ resp' = Done("delete", pk, ledger[pk].is_deleted)
    /\ UNCHANGED <<store, now, batch, calls, inflight>>

\* record.restore() on a row fetched from all_objects
ModelRestore ==
    /\ Idle
    /\ \E pk \in AllWithDeleted(ledger) :
          /\ ledger' = Restore(ledger, pk)
          /\ resp' = Done("restore", pk, ledger[pk].is_deleted)
    /\ UNCHANGED <<store, now, batch, calls, inflight>>

\* record.hard_delete() on a row fetched from all_objects
ModelHardDelete ==
    /\ Idle
    /\ \E pk \in AllWithDeleted(ledger) :
          /\ ledger' = HardDelete(ledger, pk)
          /\ resp' = Done("hard_delete", pk, ledger[pk].is_deleted)
    /\ UNCHANGED <<store, now, batch, calls, inflight>>

NextManagers ==
    \/ Deliver
    \/ ModelCreate
    \/ ModelDelete
    \/ ModelRestore
    \/ ModelHardDelete

SpecManagers == InitManagers /\ [][NextManagers]_vars

----------------------------------------------------------------------------
(* FileDeleteView.delete, served by several workers at the same time *)

\* two uploads served before: row 1 of alice, row 2 of bob
InitRace ==
    /\ ledger = Seeded(<<SeedUploads[1], SeedUploads[3]>>).ledger
    /\ store = Seeded(<<SeedUploads[1], SeedUploads[3]>>).store
    /\ now = 1
    /\ batch = NoBatch
    /\ calls = <<>>
    /\ resp = NoResp
    /\ inflight = NoInflight

\* delete requests whose id is a number
RaceRequests == [user : Users, id : 1..(Len(ledger) + 1), numeric : {TRUE}]

\* worker w has answered its request
Answered(w, answer) == [inflight EXCEPT ![w].pc = "done", ![w].answer = answer]

\* worker w takes a request and reads the row:
\* UserFileRecord.objects.filter(id=record_id, user=request.user).first()
DeleteLookup(w) ==
    /\ inflight[w].pc = "idle"
    /\ \E rq \in RaceRequests :
          LET record == Lookup(ledger, rq.id, rq.user)
          IN  inflight' =
                 IF record = 0
                 THEN Answered(w, Error("delete", rq, 404, "not found"))
                 ELSE [inflight EXCEPT ![w] = [pc |-> "found", request |-> <<rq>>,
                                              record |-> record, answer |-> NoResp]]
    /\ UNCHANGED <<ledger, store, now, batch, calls, resp>>

\* worker w calls r2_service.delete_file(record.file_path)
DeleteStoreCall(w) ==
    /\ inflight[w].pc = "found"
    /\ \E del_ok \in BOOLEAN :
          LET file_path == ledger[inflight[w].record].file_path
              del == delete_file(store, file_path, del_ok)
          IN  /\ store' = del.store
              /\ calls' = Append(calls, Call("delete_object", file_path, del.ok, 1))
              /\ inflight' =
                    IF del.ok THEN [inflight EXCEPT ![w].pc = "removed"]
                    ELSE Answered(w, Error("delete", inflight[w].request[1], 500, "store"))
    /\ UNCHANGED <<ledger, now, batch, resp>>

\* worker w calls record.delete() and answers
DeleteSave(w) ==
    /\ inflight[w].pc = "removed"
    /\ \E save_ok \in BOOLEAN :
          LET record == inflight[w].record
              rq == inflight[w].request[1]
          IN  /\ calls' = Append(calls, Call("save", ledger[record].file_path, save_ok, 1))
              /\ IF save_ok
                 THEN /\ ledger' = SoftDelete(ledger, record, now)
                      /\ inflight' = Answered(w, Success("delete", rq, "deleted", None))
                 ELSE /\ ledger' = ledger
                      /\ inflight' = Answered(w, Error("delete", rq, 500, "ledger"))
    /\ UNCHANGED <<store, now, batch, resp>>

NextRace ==
    \E w \in Workers :
        \/ DeleteLookup(w)
        \/ DeleteStoreCall(w)
        \/ DeleteSave(w)

SpecRace == InitRace /\ [][NextRace]_vars
----------------------------------------------------------------------------
(* Properties *)

\* the calls made by the step being taken
NewCalls ==
    IF Len(calls') >= Len(calls) THEN SubSeq(calls', Len(calls) + 1, Len(calls'))
    ELSE <<>>

\* a request of kind op is answered by the step being taken
Answers(op) == resp = NoResp /\ resp'.op = op

\* the positions of a batch result whose entry in list has position i
EntriesAt(list, i) == {j \in 1..Len(list) : list[j].idx = i}

\* C1: the result of a batch upload that passed the parameter and count
\* checks has total = the number of files submitted, success_count +
\* failed_count = total, and every file (position 1..total) has exactly one
\* entry, in success_files or in failed_files.
C1_BatchCountsAddUp ==
    (resp.op = "batch" /\ resp.code = 200) =>
        LET r == resp.data[1]
        IN  /\ r.total = resp.request[1].nfiles
            /\ r.success_count = Len(r.success_files)
            /\ r.failed_count = Len(r.failed_files)
            /\ r.success_count + r.failed_count = r.total
            /\ \A i \in 1..r.total :
                  Cardinality(EntriesAt(r.success_files, i))
                      + Cardinality(EntriesAt(r.failed_files, i)) = 1

\* a batch of two files answered with one success and one failure
C1_Witness ==
    /\ resp.op = "batch"
    /\ resp.code = 200
    /\ resp.data[1].total = 2
    /\ resp.data[1].success_count = 1
    /\ resp.data[1].failed_count = 1

\* the call of kind fn made for the file at position i of the batch succeeded
CallOk(fn, i) ==
    \E j \in 1..Len(calls) : calls[j].fn = fn /\ calls[j].idx = i /\ calls[j].ok

C3_OversizedBatchRejected ==
    [][(Answers("batch") /\ resp'.request[1].nfiles > MAX_BATCH_COUNT) =>
          /\ resp'.code = 400
          /\ resp'.data = <<>>
          /\ calls' = <<>>
          /\ ledger' = ledger
          /\ store' = store]_vars

\* a batch of MAX_BATCH_COUNT + 1 files is rejected while the store holds an
\* object
C3_Witness ==
    /\ resp.op = "batch"
    /\ resp.request[1].nfiles = MAX_BATCH_COUNT + 1
    /\ resp.code = 400
    /\ DOMAIN store # {}

\* C4: a file that validate_file rejects (size, type or extension) causes no
\* store put and no ledger insert: the single upload answers 400 having made
\* no call, and a rejected file of a batch has no call of its own.
C4_ValidationFirst ==
    /\ (resp.op = "upload" /\ resp.request[1].nfiles = 1
        /\ resp.request[1].project_name # Missing
        /\ resp.request[1].file_type # Missing
        /\ ~validate_file(resp.request[1].file_obj).is_valid) =>
            (resp.code = 400 /\ calls = <<>>)
    /\ LET files == IF batch.pc = "loop" THEN batch.files
                    ELSE IF resp.op = "batch" /\ resp.code = 200
                    THEN resp.data[1].files ELSE <<>>
       IN  \A i \in 1..Len(files) :
              ~validate_file(files[i]).is_valid =>
                  \A j \in 1..Len(calls) : calls[j].idx # i

\* an upload of a file over the size limit is answered 400 while the store
\* holds an object
C4_Witness ==
    /\ resp.op = "upload"
    /\ resp.code = 400
    /\ resp.message = "size"
    /\ resp.request[1].file_obj.size > MAX_FILE_SIZE
    /\ calls = <<>>
    /\ DOMAIN store # {}

\* C5: a row enters the ledger only in a step that has written its object to
\* the store for the same file; when the store write fails the step adds no
\* row, and the single upload answers with code 500.
C5_NoInsertWithoutPut ==
    [][/\ \A k \in (Len(ledger) + 1)..Len(ledger') :
             /\ ledger'[k].file_path \in DOMAIN store'
             /\ \E i, j \in 1..Len(NewCalls) :
                   /\ i < j
                   /\ NewCalls[i] = Call("put", ledger'[k].file_path, TRUE,
                                         NewCalls[j].idx)
                   /\ NewCalls[j].fn = "insert"
                   /\ NewCalls[j].ok
       /\ (\E i \in 1..Len(NewCalls) : NewCalls[i].fn = "put" /\ ~NewCalls[i].ok) =>
             /\ ledger' = ledger
             /\ store' = store
             /\ \A j \in 1..Len(NewCalls) : NewCalls[j].fn # "insert"
             /\ resp'.op = "upload" => resp'.code = 500]_vars

\* a single upload whose store write failed is answered 500
C5_Witness ==
    /\ resp.op = "upload"
    /\ resp.code = 500
    /\ resp.message = "store"
    /\ Len(calls) = 1
    /\ calls[1].fn = "put"
    /\ ~calls[1].ok

\* the file_path values of the rows of the ledger, soft-deleted or not
Paths(rows) == {rows[i].file_path : i \in 1..Len(rows)}

\* C6: a row is marked is_deleted only by a step that first made a successful
\* store delete for its file_path and then saved the row; a step whose store
\* delete fails saves nothing, leaves the row with is_deleted = FALSE and
\* deleted_at unset, and answers with code 500.
C6_StoreDeleteFirst ==
    [][/\ \A k \in 1..Len(ledger) :
             (~ledger[k].is_deleted /\ ledger'[k].is_deleted) =>
                 /\ Len(NewCalls) = 2
                 /\ NewCalls[1] = Call("delete_object", ledger[k].file_path, TRUE, 1)
                 /\ NewCalls[2] = Call("save", ledger[k].file_path, TRUE, 1)
                 /\ ledger[k].file_path \notin DOMAIN store'
       /\ \A i \in 1..Len(NewCalls) :
             (NewCalls[i].fn = "delete_object" /\ ~NewCalls[i].ok) =>
                 /\ \A j \in 1..Len(NewCalls) : NewCalls[j].fn # "save"
                 /\ \A k \in 1..Len(ledger') :
                       ledger'[k].file_path = NewCalls[i].key =>
                           /\ ~ledger'[k].is_deleted
                           /\ ledger'[k].deleted_at = NoTime
                 /\ ledger' = ledger
                 /\ resp'.op = "delete"
                 /\ resp'.code = 500]_vars

\* a delete whose store delete failed: answered 500, the row is still live
C6_Witness ==
    /\ resp.op = "delete"
    /\ resp.code = 500
    /\ resp.message = "store"
    /\ calls = <<Call("delete_object", ledger[resp.request[1].id].file_path, FALSE, 1)>>
    /\ ~ledger[resp.request[1].id].is_deleted
    /\ ledger[resp.request[1].id].deleted_at = NoTime

\* the id of a delete request names no row, a row of another user, or a row
\* that is soft-deleted
NotDeletable(rows, rq) ==
    IF rq.id \notin 1..Len(rows) THEN TRUE
    ELSE rows[rq.id].user # rq.user \/ rows[rq.id].is_deleted

\* C7: a delete request whose id (a number present in the body) names no row,
\* a row of another user or a soft-deleted row is answered with code 404 and
\* the one message, the same in the three cases; it makes no store or ledger
\* call and leaves the store and the ledger as they were.
C7_NotFoundAlike ==
    [][(Answers("delete") /\ resp'.request[1].numeric /\ resp'.request[1].id # 0
        /\ NotDeletable(ledger, resp'.request[1])) =>
          /\ resp'.code = 404
          /\ resp'.message = "not found"
          /\ resp'.data = <<>>
          /\ calls' = <<>>
          /\ ledger' = ledger
          /\ store' = store]_vars

\* a user asks to delete a live row of another user and is answered 404; the
\* object of the row is still in the store
C7_Witness ==
    /\ resp.op = "delete"
    /\ resp.code = 404
    /\ resp.request[1].id \in 1..Len(ledger)
    /\ ledger[resp.request[1].id].user # resp.request[1].user
    /\ ~ledger[resp.request[1].id].is_deleted
    /\ ledger[resp.request[1].id].file_path \in DOMAIN store

\* the rows of user that are not soft-deleted
OwnLive(rows, user) ==
    {i \in 1..Len(rows) : rows[i].user = user /\ ~rows[i].is_deleted}

\* C8: the answer to a list request of user p shows, on whatever page, only
\* rows owned by p with is_deleted = FALSE, and its total counts only such
\* rows (all of them when no filter is given).
C8_ListOwnLiveOnly ==
    (resp.op = "list" /\ resp.code = 200) =>
        LET rq == resp.request[1]
            d == resp.data[1]
            own == OwnLive(ledger, rq.user)
        IN  /\ \A i \in 1..Len(d.files) : d.files[i] \in own
            /\ d.pagination.total <= Cardinality(own)
            /\ (rq.project_name = Missing /\ rq.file_type = Missing) =>
                  d.pagination.total = Cardinality(own)

\* a user whose one row is soft-deleted lists their files: nothing is shown
C8_Witness ==
    /\ resp.op = "list"
    /\ resp.code = 200
    /\ \E i \in 1..Len(ledger) :
          ledger[i].user = resp.request[1].user /\ ledger[i].is_deleted
    /\ resp.data[1].files = <<>>
    /\ resp.data[1].pagination.total = 0

\* C9: no two rows of the ledger, soft-deleted or not, have the same
\* file_path.
C9_FilePathUnique ==
    \A i, j \in 1..Len(ledger) :
        i # j => ledger[i].file_path # ledger[j].file_path

\* an upload has generated the path of a soft-deleted row: its insert failed
\* and it is answered 500
C9_Witness ==
    /\ resp.op = "upload"
    /\ resp.code = 500
    /\ Len(calls) = 2
    /\ calls[1].fn = "put"
    /\ calls[1].ok
    /\ calls[2].fn = "insert"
    /\ ~calls[2].ok
    /\ \E i \in 1..Len(ledger) :
          ledger[i].is_deleted /\ ledger[i].file_path = calls[2].key

\* C10 (as the specification states it): a step whose generated key is the
\* file_path of a row of the ledger, the store accepting writes, leaves the
\* object stored under that key as it was and goes on to write under a fresh
\* key.
C10_CollisionRetried ==
    [][\A i \in 1..Len(NewCalls) :
          (NewCalls[i].fn = "put" /\ NewCalls[i].ok
           /\ NewCalls[i].key \in Paths(ledger)) =>
              /\ NewCalls[i].key \in DOMAIN store =>
                    /\ NewCalls[i].key \in DOMAIN store'
                    /\ store'[NewCalls[i].key] = store[NewCalls[i].key]
              /\ \E j \in (i + 1)..Len(NewCalls) :
                    /\ NewCalls[j].fn = "put"
                    /\ NewCalls[j].key \notin Paths(ledger)]_vars

\* the second upload under a key answered 500 after it has replaced the object
\* of the first: the row of the first upload now names bytes it did not store
C10_Overwritten ==
    /\ resp.op = "upload"
    /\ resp.code = 500
    /\ resp.message = "ledger"
    /\ Len(ledger) = 1
    /\ ~ledger[1].is_deleted
    /\ ledger[1].file_path = calls[1].key
    /\ ledger[1].file_size = 1
    /\ store[ledger[1].file_path].data = "d2"

\* the failure entries a batch has recorded once the step is taken
FailedAfter ==
    IF batch'.pc = "loop" THEN batch'.failed_list
    ELSE IF resp'.op = "batch" /\ resp'.code = 200 THEN resp'.data[1].failed_files
    ELSE <<>>

\* C11 (as the specification states it): when a step writes an object and the
\* insert that follows fails, the step makes no store deletion, the object
\* stays in the store under its key, no row of the ledger names that key, and
\* the failure is reported: code 500 on the single path, a failed_files entry
\* on the batch path.
C11_OrphanLeft ==
    [][\A i, j \in 1..Len(NewCalls) :
          (/\ i < j
           /\ NewCalls[i].fn = "put" /\ NewCalls[i].ok
           /\ NewCalls[j] = Call("insert", NewCalls[i].key, FALSE, NewCalls[i].idx)) =>
              /\ \A k \in 1..Len(NewCalls) : NewCalls[k].fn # "delete_object"
              /\ NewCalls[i].key \in DOMAIN store'
              /\ NewCalls[i].key \notin {ledger'[k].file_path : k \in 1..Len(ledger')}
              /\ ledger' = ledger
              /\ IF batch.pc = "loop"
                 THEN EntriesAt(FailedAfter, NewCalls[i].idx) # {}
                 ELSE resp'.op = "upload" /\ resp'.code = 500]_vars

\* an upload whose insert failed on the key of another user's row: the object
\* it wrote is in the store under the key that row names
C11_Referenced ==
    /\ resp.op = "upload"
    /\ resp.code = 500
    /\ Len(calls) = 2
    /\ calls[1].fn = "put" /\ calls[1].ok
    /\ calls[2].fn = "insert" /\ ~calls[2].ok
    /\ calls[1].key \in DOMAIN store
    /\ \E k \in 1..Len(ledger) :
          /\ ledger[k].file_path = calls[1].key
          /\ ledger[k].user # resp.request[1].user

\* C11 without the collisions of C10: the same, for a key that no row named
\* when the step began
C11_OrphanLeftFreshKey ==
    [][\A i, j \in 1..Len(NewCalls) :
          (/\ i < j
           /\ NewCalls[i].fn = "put" /\ NewCalls[i].ok
           /\ NewCalls[i].key \notin Paths(ledger)
           /\ NewCalls[j] = Call("insert", NewCalls[i].key, FALSE, NewCalls[i].idx)) =>
              /\ \A k \in 1..Len(NewCalls) : NewCalls[k].fn # "delete_object"
              /\ NewCalls[i].key \in DOMAIN store'
              /\ NewCalls[i].key \notin {ledger'[k].file_path : k \in 1..Len(ledger')}
              /\ ledger' = ledger
              /\ IF batch.pc = "loop"
                 THEN EntriesAt(FailedAfter, NewCalls[i].idx) # {}
                 ELSE resp'.op = "upload" /\ resp'.code = 500]_vars

\* the fields of a row that a soft delete may change
SoftDeleteFields == {"is_deleted", "deleted_at"}

\* C12: no step of the four endpoints removes a row of the ledger: the table
\* only grows, and a row that exists keeps every field but is_deleted and
\* deleted_at (its owner and its file_path among them).
C12_LedgerOnlyGrows ==
    [][/\ Len(ledger') >= Len(ledger)
       /\ \A k \in 1..Len(ledger) :
             \A f \in (DOMAIN ledger[k]) \ SoftDeleteFields :
                 ledger'[k][f] = ledger[k][f]]_vars

\* a delete has been served: its row is still in the table, marked deleted
C12_Witness ==
    /\ resp.op = "delete"
    /\ resp.code = 200
    /\ resp.request[1].id \in 1..Len(ledger)
    /\ ledger[resp.request[1].id].is_deleted
    /\ ledger[resp.request[1].id].user = resp.request[1].user

\* C13 (as the specification states it): after any sequence of uploads, the
\* file_size of every row of the ledger is the length of the object the store
\* holds under the file_path of the row.
C13_SizeMatchesStored ==
    \A k \in 1..Len(ledger) :
        /\ ledger[k].file_path \in DOMAIN store
        /\ store[ledger[k].file_path].size = ledger[k].file_size

\* a row that records 1 byte while the store holds 2 bytes under its file_path
C13_Mismatch ==
    \E k \in 1..Len(ledger) :
        /\ ledger[k].file_path \in DOMAIN store
        /\ ledger[k].file_size = 1
        /\ store[ledger[k].file_path].size = 2

\* the extension of each name of ValidateNames as os.path.splitext(name)[1]
\* .lower() gives it, written out name by name
ExpectedExt(name) ==
    CASE name = <<"a", ".", "J">> -> <<".", "j">>
      [] name = <<"a", ".", "j">> -> <<".", "j">>
      [] name = <<"a", ".", "P">> -> <<".", "p">>
      [] name = <<"a", ".", "x">> -> <<".", "x">>
      [] name = <<"a", ".", "X">> -> <<".", "x">>
      [] name = <<"a">> -> <<>>
      [] name = <<".", "j">> -> <<>>
      [] name = <<"a", ".", "x", ".", "J">> -> <<".", "j">>
      [] name = <<"a", ".">> -> <<".">>

\* C14: validate_file checks size, then type, then extension and gives the
\* reason of the first check that fails: a size over MAX_FILE_SIZE is rejected
\* for its size whatever the rest (a size equal to the limit is not); else a
\* type in no category's list is rejected for its type; else an extension,
\* lower-cased and not empty, in no category's list is rejected for its
\* extension, a name without extension passing; else the file is accepted
\* with no reason. The call changes neither the ledger nor the store.
C14_ValidateOrder ==
    resp.op = "validate" =>
        LET f == resp.request[1]
            too_big == f.size > MAX_FILE_SIZE
            bad_type == f.content_type \notin
                            (ALLOWED_TYPES.images \cup ALLOWED_TYPES.documents)
            ext == ExpectedExt(f.name)
            bad_ext == ext # <<>> /\ ext \notin
                            (ALLOWED_EXTENSIONS.images \cup ALLOWED_EXTENSIONS.documents)
        IN  /\ too_big => resp.message = "size"
            /\ (~too_big /\ bad_type) => resp.message = "type"
            /\ (~too_big /\ ~bad_type /\ bad_ext) => resp.message = "extension"
            /\ (~too_big /\ ~bad_type /\ ~bad_ext) => resp.message = None
            /\ (resp.code = 200) = (resp.message = None)
            /\ (f.size = MAX_FILE_SIZE) => resp.message # "size"
            /\ ledger = <<>>
            /\ store = <<>>
            /\ calls = <<>>

\* a file at the size limit whose type and extension are both not allowed is
\* rejected for its type
C14_Witness ==
    /\ resp.op = "validate"
    /\ resp.request[1].size = MAX_FILE_SIZE
    /\ resp.request[1].content_type = "text/x-sh"
    /\ resp.request[1].name = <<"a", ".", "X">>
    /\ resp.message = "type"

\* the request of an answer is refused for a missing field or by a validation
\* (of the file, or of the number of files of a batch)
ValidationKind(r) ==
    LET rq == r.request[1]
    IN  CASE r.op = "upload" ->
                \/ rq.nfiles # 1
                \/ rq.project_name = Missing
                \/ rq.file_type = Missing
                \/ ~validate_file(rq.file_obj).is_valid
          [] r.op = "batch" ->
                \/ rq.nfiles = 0
                \/ rq.project_name = Missing
                \/ rq.file_type = Missing
                \/ rq.nfiles > MAX_BATCH_COUNT
          [] r.op = "delete" -> rq.numeric /\ rq.id = 0
          [] OTHER -> FALSE

\* the request of an answer names a record that is absent, not owned or
\* soft-deleted
NotFoundKind(r) ==
    /\ r.op = "delete"
    /\ r.request[1].numeric
    /\ r.request[1].id # 0
    /\ NotDeletable(ledger, r.request[1])

\* a store or ledger call of the request failed
FailureKind == \E i \in 1..Len(calls) : ~calls[i].ok

C16_PageSizeBounded ==
    (resp.op = "list" /\ resp.code = 200) =>
        Len(resp.data[1].files) <= max_page_size

\* a list answer with more than max_page_size items, as many as the caller
\* asked for
C16_Unbounded ==
    /\ resp.op = "list"
    /\ resp.code = 200
    /\ resp.request[1].page_size > max_page_size
    /\ Len(resp.data[1].files) = resp.request[1].page_size
    /\ resp.data[1].pagination.page_size = resp.request[1].page_size

\* the key of a put call has the form project_name/file_type/timestamp_suffix_name
\* for the request rq served in second t
HasKeyForm(key, rq, t) ==
    \E suffix \in Uuids :
        key = <<rq.project_name, "/", rq.file_type, "/", ToString(t), "_", suffix, "_">>
                  \o (IF rq.custom_name # NoName THEN rq.custom_name
                      ELSE rq.file_obj.name)

\* the part of C17 on the form of the key: every key written has the form
\* project_name/file_type/timestamp_suffix_name, name being custom_name when
\* given and the name of the file otherwise
C17_KeyForm ==
    [][\A i \in 1..Len(NewCalls) :
          NewCalls[i].fn = "put" => HasKeyForm(NewCalls[i].key, resp'.request[1], now)]_vars

\* C17 (as the specification states it): every generated key has that form,
\* and no call generates a key that an earlier call has generated (calls with
\* the same project, type and name in the same second differ in the suffix).
C17_KeysDiffer ==
    [][\A i \in 1..Len(NewCalls) :
          NewCalls[i].fn = "put" =>
              /\ HasKeyForm(NewCalls[i].key, resp'.request[1], now)
              /\ NewCalls[i].key \notin DOMAIN store]_vars

\* a second upload named by custom_name has written under the key of the
\* first, made in the same second
C17_SameKeyTwice ==
    /\ resp.op = "upload"
    /\ resp.request[1].custom_name # NoName
    /\ Len(calls) = 2
    /\ calls[1].fn = "put" /\ calls[1].ok
    /\ calls[2].fn = "insert" /\ ~calls[2].ok
    /\ \E k \in 1..Len(ledger) :
          /\ ledger[k].file_path = calls[1].key
          /\ ledger[k].uploaded_at = now
          /\ ledger[k].file_name = resp.request[1].custom_name

\* the visible rows of the owner that pass every filter the request rq gives
Matching(rq) ==
    {k \in 1..Len(ledger) :
        /\ ledger[k].user = rq.user
        /\ ~ledger[k].is_deleted
        /\ (rq.project_name # Missing => ledger[k].project_name = rq.project_name)
        /\ (rq.file_type # Missing => ledger[k].file_type = rq.file_type)}

\* o lists every row of the set M once, the latest upload first
LatestFirst(o, M) ==
    /\ \A m \in M : \E i \in DOMAIN o : o[i] = m
    /\ \A i, j \in DOMAIN o :
          i < j => /\ o[i] # o[j]
                   /\ ledger[o[i]].uploaded_at >= ledger[o[j]].uploaded_at

\* the ceiling of a / b, for b > 0
CeilDiv(a, b) == (a + b - 1) \div b

\* C18: the items of a list answer are a page of the owner's visible rows that
\* match every filter present (an absent filter not restricting), taken from
\* those rows put in order of uploaded_at, latest first: page n of size s holds
\* the rows at positions (n - 1) * s + 1 .. n * s of that order, the requested
\* page when there is such a page, and total counts the matching rows.
C18_ListFilteredOrdered ==
    (resp.op = "list" /\ resp.code = 200) =>
        LET rq == resp.request[1]
            d == resp.data[1]
            M == Matching(rq)
            s == rq.page_size
            pages == IF M = {} THEN 1 ELSE CeilDiv(Cardinality(M), s)
        IN  /\ d.pagination.total = Cardinality(M)
            /\ \E o \in [1..Cardinality(M) -> M] :
                  /\ LatestFirst(o, M)
                  /\ \E n \in 1..pages :
                        /\ rq.page \in 1..pages => n = rq.page
                        /\ Len(d.files) =
                              (IF n * s <= Cardinality(M) THEN s
                               ELSE Cardinality(M) - (n - 1) * s)
                        /\ \A i \in 1..Len(d.files) : d.files[i] = o[(n - 1) * s + i]

\* alice lists page 2 of size 1 of her files of project p1 and type images:
\* the older of her two such rows is returned, her row of type documents is not
C18_Witness ==
    /\ resp.op = "list"
    /\ resp.code = 200
    /\ resp.request[1].user = "alice"
    /\ resp.request[1].project_name = "p1"
    /\ resp.request[1].file_type = "images"
    /\ resp.request[1].page = 2
    /\ resp.request[1].page_size = 1
    /\ resp.data[1].pagination.total = 2
    /\ Len(resp.data[1].files) = 1
    /\ ledger[resp.data[1].files[1]].uploaded_at = 0
    /\ \E k \in 1..Len(ledger) :
          /\ ledger[k].user = "alice"
          /\ ledger[k].file_type = "documents"
          /\ ~ledger[k].is_deleted

\* the rows of the table whose is_deleted is the flag
Flagged(rows, flag) ==
    {i \in 1..Len(rows) : rows[i] # Gone /\ rows[i].is_deleted = flag}

C20_LiveRowsStored ==
    \A k \in Objects(ledger) : ledger[k].file_path \in DOMAIN store

\* a delete whose store deletion went through and whose save of the row
\* failed is answered 500: the row is still live and its object is gone
C20_LiveRowWithoutObject ==
    /\ resp.op = "delete"
    /\ resp.code = 500
    /\ resp.message = "ledger"
    /\ calls = <<Call("delete_object", ledger[resp.request[1].id].file_path, TRUE, 1),
                 Call("save", ledger[resp.request[1].id].file_path, FALSE, 1)>>
    /\ resp.request[1].id \in Objects(ledger)
    /\ ledger[resp.request[1].id].file_path \notin DOMAIN store

\* C20 for the steps that write: an upload or a batch upload leaves every live
\* row that had its object with its object, and adds only rows whose object is
\* stored
C20_UploadsKeepObjects ==
    [][(resp'.op # "delete") =>
          /\ \A k \in Objects(ledger) :
                ledger[k].file_path \in DOMAIN store =>
                    ledger[k].file_path \in DOMAIN store'
          /\ \A k \in (Len(ledger) + 1)..Len(ledger') :
                ledger'[k].file_path \in DOMAIN store']_vars

\* the extension of a stored name is empty or in the allow-list
AllowedExt(name) ==
    LET e == Lower(SplitExt(name))
    IN  e = <<>> \/ \E kind \in DOMAIN ALLOWED_EXTENSIONS : e \in ALLOWED_EXTENSIONS[kind]

\* C21 (as the specification states it): every row created by the single
\* upload, with or without custom_name, has a file_name and a file_path whose
\* extension is empty or in the allow-list of extensions.
C21_StoredExtAllowed ==
    \A k \in 1..Len(ledger) :
        /\ AllowedExt(ledger[k].file_name)
        /\ AllowedExt(ledger[k].file_path)

\* an upload of a.J with custom_name c.x has been answered 200: the row and the
\* key of its object end in .x, which is in no allow-list
C21_CustomNameStored ==
    /\ resp.op = "upload"
    /\ resp.code = 200
    /\ validate_file(resp.request[1].file_obj).is_valid
    /\ resp.request[1].custom_name = <<"c", ".", "x">>
    /\ \E k \in 1..Len(ledger) :
          /\ ledger[k].file_name = <<"c", ".", "x">>
          /\ SplitExt(ledger[k].file_path) = <<".", "x">>
          /\ ledger[k].file_path \in DOMAIN store
          /\ ~AllowedExt(ledger[k].file_name)

\* C21 without custom_name: an upload that gives no custom_name adds only rows
\* whose stored name has the extension validate_file accepted
C21_ValidatedNameStored ==
    [][(Answers("upload") /\ resp'.request[1].custom_name = NoName) =>
          \A k \in (Len(ledger) + 1)..Len(ledger') :
              /\ ledger'[k].file_name = resp'.request[1].file_obj.name
              /\ AllowedExt(ledger'[k].file_name)
              /\ AllowedExt(ledger'[k].file_path)]_vars

\* files is page n, of size s, of the rows of M put in an order latest first
IsPage(files, M, n, s) ==
    \E o \in [1..Cardinality(M) -> M] :
        /\ LatestFirst(o, M)
        /\ Len(files) = (IF n * s <= Cardinality(M) THEN s
                         ELSE IF (n - 1) * s <= Cardinality(M)
                         THEN Cardinality(M) - (n - 1) * s
                         ELSE 0)
        /\ \A i \in 1..Len(files) : files[i] = o[(n - 1) * s + i]

\* C22 (as the specification states it): the pagination.page of a list answer
\* lies in 1..total_pages and is the number of the page whose items are in
\* files, whatever page was requested.
C22_PageNumberServed ==
    (resp.op = "list" /\ resp.code = 200) =>
        LET rq == resp.request[1]
            d == resp.data[1]
        IN  /\ d.pagination.page \in 1..d.pagination.total_pages
            /\ IsPage(d.files, Matching(rq), d.pagination.page, rq.page_size)

\* page 3 of alice's files is requested when there are two pages of one row:
\* the answer carries the row of page 2 and says page 3 of 2
C22_PastLastPage ==
    /\ resp.op = "list"
    /\ resp.code = 200
    /\ resp.request[1].user = "alice"
    /\ resp.request[1].page = 3
    /\ resp.request[1].page_size = 1
    /\ resp.data[1].pagination.total_pages = 2
    /\ resp.data[1].pagination.page = 3
    /\ Len(resp.data[1].files) = 1
    /\ IsPage(resp.data[1].files, Matching(resp.request[1]), 2, 1)

\* C22 for a page that exists: a request for a page in 1..total_pages is
\* answered with that number and the items of that page
C22_ExistingPage ==
    (resp.op = "list" /\ resp.code = 200
     /\ resp.request[1].page \in 1..resp.data[1].pagination.total_pages) =>
        LET rq == resp.request[1]
            d == resp.data[1]
        IN  /\ d.pagination.page = rq.page
            /\ IsPage(d.files, Matching(rq), rq.page, rq.page_size)

\* the workers that have answered a delete request of the owner of row k for
\* that row
AnsweredFor(k) ==
    {w \in Workers : /\ inflight[w].pc = "done"
                     /\ inflight[w].answer.request[1].id = k
                     /\ inflight[w].answer.request[1].user = ledger[k].user}

\* the store deletions called for the key
StoreDeletes(key) ==
    {i \in 1..Len(calls) : calls[i].fn = "delete_object" /\ calls[i].key = key}

\* C23 (as the specification states it): however the delete requests of the
\* owner of a row interleave, at most one of them is answered with success,
\* the store deletion for the file_path of the row is called at most once, and
\* every other of those requests is answered NotFound.
C23_OneDeleteSucceeds ==
    \A k \in 1..Len(ledger) :
        LET succeeded == {w \in AnsweredFor(k) : inflight[w].answer.code = 200}
        IN  /\ Cardinality(succeeded) <= 1
            /\ Cardinality(StoreDeletes(ledger[k].file_path)) <= 1
            /\ \A w \in AnsweredFor(k) \ succeeded : inflight[w].answer.code = 404

\* two workers have read row 1 of alice before either saved it: both called
\* the store deletion, both saved the row, both answered 200, no call failing
C23_BothSucceed ==
    /\ \A w \in 1..2 :
          /\ inflight[w].pc = "done"
          /\ inflight[w].answer.code = 200
          /\ inflight[w].answer.request[1] = [user |-> "alice", id |-> 1, numeric |-> TRUE]
    /\ Cardinality(StoreDeletes(ledger[1].file_path)) = 2
    /\ \A i \in 1..Len(calls) : calls[i].ok
    /\ ledger[1].is_deleted

\* C23 for requests that do not overlap: a request that reads the row after
\* a delete of it was saved is answered NotFound and makes no call
C23_LateRequestNotFound ==
    [][\A w \in Workers :
          (/\ inflight[w].pc = "idle"
           /\ inflight'[w].pc # "idle"
           /\ inflight'[w].request = <<>> => inflight'[w].answer.request[1].id \in DeletedOnly(ledger)
           /\ inflight'[w].request # <<>> => inflight'[w].request[1].id \in DeletedOnly(ledger)) =>
              /\ inflight'[w].pc = "done"
              /\ inflight'[w].answer.code = 404
              /\ calls' = calls
              /\ store' = store
              /\ ledger' = ledger]_vars

====
